---- MODULE Spec2Model ----
(***************************************************************************)
(* WireViz harness model: connectors, cables, the connection builder       *)
(* (Harness.connect), the mate resolver (Harness.add_mate_pin), the        *)
(* quantity multipliers and the BOM accumulator                            *)
(* (Harness._add_to_internal_bom), translated from                         *)
(* src/src/wireviz/Harness.py and src/src/wireviz/wv_dataclasses.py.       *)
(*                                                                         *)
(* Encoding of Python values:                                              *)
(*   - str / int identifiers (designators, pin ids, labels, references)    *)
(*     are TLA+ strings; the int n is the string of its digits, and the    *)
(*     inputs never hold a str made of digits, so the encoding is          *)
(*     one-to-one on the inputs.  None is the string "None".               *)
(*   - an optional object (a pin of a Connection) is the object's record   *)
(*     or NoneObj.                                                         *)
(*   - a value that is a str or a list of str (part-number fields, the     *)
(*     designator argument of _add) is Str(s), List(l) or NoneObj, so that *)
(*     isinstance(v, list) is IsList(v).                                   *)
(*   - a raised exception is the "exc" field of an operation's result,     *)
(*     together with the state the operation had reached when it raised.   *)
(*   - quantities are integers counting thousandths (QtyScale), so that    *)
(*     length + 0.001 is exact.                                            *)
(***************************************************************************)
EXTENDS Integers, Sequences, FiniteSets, TLC

VARIABLES
    connectors,            \* Harness.connectors: designator -> Connector
    cables,                \* Harness.cables: designator -> Cable
    mates,                 \* Harness.mates: list of MatePin
    additional_bom_items,  \* Harness.additional_bom_items
    bom,                   \* Harness._bom: hash -> entry
    last,                  \* the last call made on the harness and its outcome
    added                  \* the _add invocations made so far, in order

vars == <<connectors, cables, mates, additional_bom_items, bom, last, added>>

-----------------------------------------------------------------------------
(* Python values *)

None == "None"
NoneObj == [none |-> TRUE]
Str(s) == [str |-> s]
List(l) == [list |-> l]
IsNoneObj(v) == "none" \in DOMAIN v
IsList(v) == "list" \in DOMAIN v
IsStr(v) == "str" \in DOMAIN v

AUTOGENERATED_PREFIX == "AUTOGENERATED_"

Max(a, b) == IF a >= b THEN a ELSE b

\* x in s, for a list s
In(x, s) == \E i \in 1..Len(s) : s[i] = x

\* s.index(x) + 1: the position of the first occurrence (x is in s)
Index(s, x) == CHOOSE i \in 1..Len(s) : s[i] = x /\ \A j \in 1..(i - 1) : s[j] # x

\* s.count(x)
Count(s, x) == Cardinality({i \in 1..Len(s) : s[i] = x})

\* len(set(s))
SetOf(s) == {s[i] : i \in 1..Len(s)}

\* s.startswith(prefix)
StartsWith(s, prefix) ==
    Len(s) >= Len(prefix) /\ SubSeq(s, 1, Len(prefix)) = prefix

\* [x for x in s if x is not None and x != ""]
RECURSIVE NonEmpty(_)
NonEmpty(s) ==
    IF s = <<>> THEN <<>>
    ELSE IF Head(s) = None \/ Head(s) = ""
         THEN NonEmpty(Tail(s))
         ELSE <<Head(s)>> \o NonEmpty(Tail(s))

\* sep.join(s)
RECURSIVE Join(_, _)
Join(sep, s) ==
    IF s = <<>> THEN ""
    ELSE IF Len(s) = 1 THEN Head(s)
         ELSE Head(s) \o sep \o Join(sep, Tail(s))

\* itertools.zip_longest: the i-th element of list s, None past its end
Nth(s, i) == IF i <= Len(s) THEN s[i] ELSE None

-----------------------------------------------------------------------------
(* Component.fill_partnumbers.  remove_links leaves a value that is not a  *)
(* str, and a str without an HTML link, as it is; the inputs hold no links. *)

fill_partnumbers(kw) ==
    [pn |-> kw.pn, manufacturer |-> kw.manufacturer, mpn |-> kw.mpn,
     supplier |-> kw.supplier, spn |-> kw.spn]

(* AdditionalComponent: dataclass defaults and __post_init__ *)

AdditionalComponentDefaults ==
    [category |-> None, type |-> None, subtype |-> None,
     pn |-> NoneObj, manufacturer |-> NoneObj, mpn |-> NoneObj,
     supplier |-> NoneObj, spn |-> NoneObj,
     ignore_in_bom |-> FALSE, qty |-> 1, unit |-> None, qty_multiplier |-> "1",
     designators |-> NoneObj]

AdditionalComponent(kw) ==
    [kind |-> "AdditionalComponent",
     category |-> kw.category, type |-> kw.type, subtype |-> kw.subtype,
     partnumbers |-> fill_partnumbers(kw),
     ignore_in_bom |-> kw.ignore_in_bom, qty |-> kw.qty, unit |-> kw.unit,
     qty_multiplier |-> kw.qty_multiplier, designators |-> kw.designators]

\* [AdditionalComponent(**item) for item in additional_components]
AdditionalComponents(items) == [i \in 1..Len(items) |-> AdditionalComponent(items[i])]

-----------------------------------------------------------------------------
(* Connector: dataclass defaults (pincount None is 0: the code tests it   *)
(* only with "not self.pincount") and __post_init__                        *)

ConnectorDefaults ==
    [category |-> None, type |-> None, subtype |-> None,
     pn |-> NoneObj, manufacturer |-> NoneObj, mpn |-> NoneObj,
     supplier |-> NoneObj, spn |-> NoneObj,
     ignore_in_bom |-> FALSE, color |-> None, additional_components |-> <<>>,
     show_name |-> None, style |-> None, pincount |-> 0,
     pins |-> <<>>, pinlabels |-> <<>>, pincolors |-> <<>>,
     show_pincount |-> None]

is_autogenerated(designator) == StartsWith(designator, AUTOGENERATED_PREFIX)

\* lines 348-363: the pin count after the style and the implicit-count rules
ConnectorPincount(kw) ==
    LET styled == IF kw.style = "simple" THEN 1 ELSE kw.pincount
    IN IF styled # 0 THEN styled
       ELSE Max(Len(kw.pins), Max(Len(kw.pinlabels), Len(kw.pincolors)))

\* lines 365-367
ConnectorPins(kw) ==
    IF kw.pins = <<>>
    THEN [i \in 1..ConnectorPincount(kw) |-> ToString(i)]
    ELSE kw.pins

\* lines 373-389: one PinClass per element of zip_longest(pins, pinlabels, pincolors)
PinObjects(designator, kw) ==
    LET pins == ConnectorPins(kw)
        n == Max(Len(pins), Max(Len(kw.pinlabels), Len(kw.pincolors)))
    IN [i \in 1..n |->
          [index |-> i - 1, id |-> Nth(pins, i), label |-> Nth(kw.pinlabels, i),
           color |-> Nth(kw.pincolors, i), parent |-> designator,
           anonymous |-> is_autogenerated(designator),
           simple |-> (kw.style = "simple")]]

\* Connector(designator=designator, **kw): [exc, obj]
Connector(designator, kw) ==
    LET pins == ConnectorPins(kw)
        exc ==
          IF kw.style = "simple" /\ kw.pincount > 1
          THEN "Connectors with style set to simple may only have one pin"
          ELSE IF ConnectorPincount(kw) = 0
          THEN "You need to specify at least one: pincount, pins, pinlabels, or pincolors"
          ELSE IF Len(pins) # Cardinality(SetOf(pins))
          THEN "Pins are not unique"
          ELSE None
    IN [exc |-> exc,
        obj |->
          [kind |-> "Connector",
           designator |-> designator,
           category |-> kw.category, type |-> kw.type, subtype |-> kw.subtype,
           partnumbers |-> fill_partnumbers(kw),
           ignore_in_bom |-> kw.ignore_in_bom, color |-> kw.color,
           style |-> kw.style,
           pincount |-> ConnectorPincount(kw),
           pins |-> pins, pinlabels |-> kw.pinlabels, pincolors |-> kw.pincolors,
           pin_objects |-> PinObjects(designator, kw),
           ports_left |-> FALSE, ports_right |-> FALSE,
           visible_pins |-> [p \in {} |-> TRUE],
           show_name |-> IF kw.show_name = None
                         THEN IF kw.style # "simple" /\ ~is_autogenerated(designator)
                              THEN "True" ELSE "False"
                         ELSE kw.show_name,
           show_pincount |-> IF kw.show_pincount = None
                             THEN IF kw.style # "simple" THEN "True" ELSE "False"
                             ELSE kw.show_pincount,
           additional_components |-> AdditionalComponents(kw.additional_components)]]

-----------------------------------------------------------------------------
(* Cable: dataclass defaults and __post_init__.  The inputs give gauge and *)
(* length as numbers (gauge as its digits, it is only ever formatted) and  *)
(* no color_code, so the str-parsing branches of lines 536-581 and the     *)
(* colour table of lines 588-595 are not entered; wirecount None is 0      *)
(* (tested only with "if self.wirecount"), "mm2" stands for the unit the   *)
(* code writes with a superscript two.                                     *)

CableDefaults ==
    [category |-> None, type |-> None, subtype |-> None,
     pn |-> NoneObj, manufacturer |-> NoneObj, mpn |-> NoneObj,
     supplier |-> NoneObj, spn |-> NoneObj,
     ignore_in_bom |-> FALSE, color |-> None, additional_components |-> <<>>,
     show_name |-> None, gauge |-> None, gauge_unit |-> None,
     length |-> 0, length_unit |-> None,
     wirecount |-> 0, shield |-> FALSE, colors |-> <<>>, wirelabels |-> <<>>]

\* lines 583-605: the colour list, looped or cut to wirecount
CableColors(kw) ==
    IF kw.wirecount # 0
    THEN IF kw.colors # <<>>
         THEN [i \in 1..kw.wirecount |-> kw.colors[((i - 1) % Len(kw.colors)) + 1]]
         ELSE [i \in 1..kw.wirecount |-> ""]
    ELSE kw.colors

CableWirecount(kw) == IF kw.wirecount # 0 THEN kw.wirecount ELSE Len(kw.colors)

\* lines 613-622: a part-number field that is a list is refused unless the
\* cable is a bundle and the list has wirecount elements
PartListExc(kw) ==
    LET idfields == <<kw.manufacturer, kw.mpn, kw.supplier, kw.spn, kw.pn>>
    IN IF kw.category = "bundle"
       THEN IF \E i \in 1..5 : IsList(idfields[i])
                                 /\ Len(idfields[i].list) # CableWirecount(kw)
            THEN "lists of part data must match wirecount"
            ELSE None
       ELSE IF \E i \in 1..5 : IsList(idfields[i])
            THEN "lists of part data are only supported for bundles"
            ELSE None

\* lines 624-654: one WireClass per element of zip_longest(colors, wirelabels),
\* then the shield
WireObjects(designator, kw) ==
    LET colors == CableColors(kw)
        n == Max(Len(colors), Len(kw.wirelabels))
        wires == [i \in 1..n |->
                    [index |-> i - 1, id |-> ToString(i), label |-> Nth(kw.wirelabels, i),
                     color |-> Nth(colors, i), parent |-> designator]]
    IN IF kw.shield
       THEN Append(wires, [index |-> n, id |-> "s", label |-> "Shield",
                           color |-> None, parent |-> designator])
       ELSE wires

\* Cable(designator=designator, **kw): [exc, obj]
Cable(designator, kw) ==
    LET exc ==
          IF kw.wirecount = 0 /\ kw.colors = <<>>
          THEN "Unknown number of wires"
          ELSE IF kw.wirelabels # <<>> /\ kw.shield /\ In("s", kw.wirelabels)
          THEN "s may not be used as a wire label for a shielded cable"
          ELSE PartListExc(kw)
    IN [exc |-> exc,
        obj |->
          [kind |-> "Cable",
           designator |-> designator,
           category |-> kw.category, type |-> kw.type, subtype |-> kw.subtype,
           partnumbers |-> fill_partnumbers(kw),
           ignore_in_bom |-> kw.ignore_in_bom, color |-> kw.color,
           gauge |-> kw.gauge,
           gauge_unit |-> IF kw.gauge # None /\ kw.gauge_unit = None
                          THEN "mm2" ELSE kw.gauge_unit,
           length |-> kw.length,
           length_unit |-> IF kw.length_unit = None THEN "m" ELSE kw.length_unit,
           wirecount |-> CableWirecount(kw),
           shield |-> kw.shield,
           colors |-> CableColors(kw), wirelabels |-> kw.wirelabels,
           wire_objects |-> WireObjects(designator, kw),
           _connections |-> <<>>,
           show_name |-> IF kw.show_name = None
                         THEN IF ~is_autogenerated(designator) THEN "True" ELSE "False"
                         ELSE kw.show_name,
           additional_components |-> AdditionalComponents(kw.additional_components)]]

-----------------------------------------------------------------------------
(* Connector methods.  self is the connector's record; a method that can  *)
(* raise returns [exc, ...].                                               *)

\* Connector._check_if_unique_id and Connector.get_pin_by_id: [exc, pin]
get_pin_by_id(self, id) ==
    LET results == {i \in 1..Len(self.pin_objects) : self.pin_objects[i].id = id}
    IN IF Cardinality(results) = 0
       THEN [exc |-> "Pin ID not found", pin |-> NoneObj]
       ELSE IF Cardinality(results) > 1
       THEN [exc |-> "Pin ID found more than once", pin |-> NoneObj]
       ELSE [exc |-> None,
             pin |-> self.pin_objects[CHOOSE i \in results : \A j \in results : i <= j]]

\* a variant of Connector.activate_pin that opens both sides whatever the role
activate_pin_both_sides(self, pin, side) ==
    [self EXCEPT
       !.visible_pins = [p \in DOMAIN self.visible_pins \cup {pin} |->
                           IF p = pin THEN TRUE ELSE self.visible_pins[p]],
       !.ports_left = TRUE,
       !.ports_right = TRUE]

\* Connector.activate_pin: the connector after the call
activate_pin(self, pin, side) ==
    [self EXCEPT
       !.visible_pins = [p \in DOMAIN self.visible_pins \cup {pin} |->
                           IF p = pin THEN TRUE ELSE self.visible_pins[p]],
       !.ports_left = IF side = "LEFT" THEN TRUE ELSE @,
       !.ports_right = IF side = "RIGHT" THEN TRUE ELSE @]

\* Connector.get_qty_multiplier: [exc, ret]
ConnectorQtyMultiplier(self, qty_multiplier) ==
    IF qty_multiplier = None
    THEN [exc |-> None, ret |-> 1]
    ELSE IF qty_multiplier = "pincount"
    THEN [exc |-> None, ret |-> self.pincount]
    ELSE IF qty_multiplier = "populated"
    THEN [exc |-> None,
          ret |-> Cardinality({p \in DOMAIN self.visible_pins : self.visible_pins[p]})]
    ELSE [exc |-> "ValueError", ret |-> 0]

\* a description that also names the designator (a variant of
\* Connector.description under which the BOM hash would depend on it)
ConnectorDescriptionNamed(self) ==
    Join(", ", NonEmpty(<<"Connector", self.designator, self.type, self.subtype,
                          IF self.show_pincount = "True"
                          THEN ToString(self.pincount) \o " pins" ELSE None,
                          self.color>>))

\* Connector.description
ConnectorDescription(self) ==
    Join(", ", NonEmpty(<<"Connector", self.type, self.subtype,
                          IF self.show_pincount = "True"
                          THEN ToString(self.pincount) \o " pins" ELSE None,
                          self.color>>))

-----------------------------------------------------------------------------
(* Cable methods *)

\* Cable.get_wire_by_id: [exc, wire]
get_wire_by_id(self, id) ==
    LET wire == {i \in 1..Len(self.wire_objects) : self.wire_objects[i].id = id}
    IN IF Cardinality(wire) = 0
       THEN [exc |-> "Wire ID not found", wire |-> NoneObj]
       ELSE IF Cardinality(wire) > 1
       THEN [exc |-> "Wire ID found more than once", wire |-> NoneObj]
       ELSE [exc |-> None,
             wire |-> self.wire_objects[CHOOSE i \in wire : \A j \in wire : i <= j]]

\* a variant of Cable._connect that skips a Connection the cable already holds
CableConnectDedup(self, from_pin_obj, via_wire_id, to_pin_obj) ==
    LET via_wire_obj == get_wire_by_id(self, via_wire_id)
        connection == [from_ |-> from_pin_obj, via |-> via_wire_obj.wire,
                       to |-> to_pin_obj]
    IN IF via_wire_obj.exc # None
       THEN [exc |-> via_wire_obj.exc, self |-> self]
       ELSE [exc |-> None,
             self |-> IF In(connection, self._connections) THEN self
                      ELSE [self EXCEPT !._connections = Append(@, connection)]]

\* a variant of Cable._connect that appends the Connection before it looks the
\* wire up, so that a wire that is not found leaves a Connection behind
CableConnectEager(self, from_pin_obj, via_wire_id, to_pin_obj) ==
    LET via_wire_obj == get_wire_by_id(self, via_wire_id)
    IN [exc |-> via_wire_obj.exc,
        self |-> [self EXCEPT !._connections =
                    Append(@, [from_ |-> from_pin_obj, via |-> via_wire_obj.wire,
                               to |-> to_pin_obj])]]

\* Cable._connect: [exc, self], self being the cable when the call ended
CableConnect(self, from_pin_obj, via_wire_id, to_pin_obj) ==
    LET via_wire_obj == get_wire_by_id(self, via_wire_id)
    IN IF via_wire_obj.exc # None
       THEN [exc |-> via_wire_obj.exc, self |-> self]
       ELSE [exc |-> None,
             self |-> [self EXCEPT !._connections =
                         Append(@, [from_ |-> from_pin_obj, via |-> via_wire_obj.wire,
                                    to |-> to_pin_obj])]]

\* Cable.get_qty_multiplier: [exc, ret].  Line 690 reads self.connections,
\* an attribute no Cable has (the field is _connections): AttributeError.
CableQtyMultiplier(self, qty_multiplier) ==
    IF qty_multiplier = None
    THEN [exc |-> None, ret |-> 1]
    ELSE IF qty_multiplier = "wirecount"
    THEN [exc |-> None, ret |-> self.wirecount]
    ELSE IF qty_multiplier = "terminations"
    THEN [exc |-> "AttributeError", ret |-> 0]
    ELSE IF qty_multiplier = "length"
    THEN [exc |-> None, ret |-> self.length]
    ELSE IF qty_multiplier = "total_length"
    THEN [exc |-> None, ret |-> self.length * self.wirecount]
    ELSE [exc |-> "ValueError", ret |-> 0]

\* Cable.description: a str, or for a bundle a list with one str per colour
CableDescription(self) ==
    IF self.category = "bundle"
    THEN [i \in 1..Len(self.colors) |->
            Join(", ", NonEmpty(<<"Wire", self.type, self.subtype,
                                  IF self.gauge # None
                                  THEN self.gauge \o " " \o self.gauge_unit
                                  ELSE None,
                                  self.color>>))]
    ELSE LET substrs ==
               << <<"", "Cable">>, <<", ", self.type>>, <<", ", self.subtype>>,
                  <<", ", ToString(self.wirecount)>>,
                  <<" ", IF self.gauge # None
                         THEN "x " \o self.gauge \o " " \o self.gauge_unit
                         ELSE " wires">>,
                  <<" ", IF self.shield THEN "shielded" ELSE None>>,
                  <<", ", self.color>> >>
             kept == SelectSeq(substrs, LAMBDA s : s[2] # None /\ s[2] # "")
         IN Join("", [i \in 1..Len(kept) |-> kept[i][1] \o kept[i][2]])

\* AdditionalComponent.description (type is a str in every input)
AdditionalComponentDescription(self) ==
    Join(", ", <<self.type, IF self.subtype # None THEN self.subtype ELSE "">>)

-----------------------------------------------------------------------------
(* Component.bom_hash *)

\* the description and unit properties of the component's class
Description(self) ==
    IF self.kind = "Connector" THEN ConnectorDescription(self)
    ELSE IF self.kind = "Cable" THEN CableDescription(self)
    ELSE AdditionalComponentDescription(self)

Unit(self) ==
    IF self.kind = "Connector" THEN None
    ELSE IF self.kind = "Cable" THEN self.length_unit
    ELSE self.unit

\* _force_list for an element of the BomHashList of a cable with n colours;
\* is_list is isinstance(inp, list)
force_list(is_list, inp, n) == IF is_list THEN inp ELSE [i \in 1..n |-> inp]

BomHash(description, unit, partnumbers) ==
    [description |-> description, unit |-> unit, partnumbers |-> partnumbers]

\* bom_hash: a BomHash, or List(the BomHashes of a bundle).  Of the three
\* elements of the BomHashList only the bundle's description is a list: unit is
\* a str and partnumbers is a PartNumberInfo, whatever its fields hold.
bom_hash(self) ==
    IF self.category = "bundle"
    THEN LET n == Len(self.colors)
             descriptions == force_list(TRUE, Description(self), n)
             units == force_list(FALSE, Unit(self), n)
             partnumbers == force_list(FALSE, self.partnumbers, n)
         IN List([i \in 1..n |-> BomHash(descriptions[i], units[i], partnumbers[i])])
    ELSE BomHash(Description(self), Unit(self), self.partnumbers)

\* AdditionalComponent.qty_final, in thousandths
QtyScale == 1000
qty_final(self) == 999 * QtyScale

-----------------------------------------------------------------------------
(* Harness.connect *)

\* a variant of the loop's turn that takes a label used more than once as the
\* first pin carrying it
CheckEndpointFirst(name, pin, from_name, to_name, st) ==
    IF st.exc # None \/ name = None \/ name \notin DOMAIN connectors
    THEN st
    ELSE LET connector == connectors[name]
         IN IF /\ In(pin, connector.pins)
               /\ In(pin, connector.pinlabels)
               /\ Index(connector.pins, pin) # Index(connector.pinlabels, pin)
            THEN [st EXCEPT !.exc = "is defined both in pinlabels and pins, for different pins"]
            ELSE IF In(pin, connector.pinlabels)
            THEN LET index == Index(connector.pinlabels, pin)
                 IN IF index > Len(connector.pins)
                    THEN [st EXCEPT !.exc = "IndexError"]
                    ELSE [st EXCEPT
                            !.from_pin = IF name = from_name
                                         THEN connector.pins[index] ELSE @,
                            !.to_pin = IF name = to_name
                                       THEN connector.pins[index] ELSE @]
            ELSE IF ~In(pin, connector.pins)
            THEN [st EXCEPT !.exc = "not found"]
            ELSE st

\* lines 178-199: one turn of the loop over the two endpoints.  st holds the
\* locals from_pin and to_pin and the exception raised so far; name and pin are
\* the turn's pair, taken from the arguments as they were passed.
CheckEndpoint(name, pin, from_name, to_name, st) ==
    IF st.exc # None \/ name = None \/ name \notin DOMAIN connectors
    THEN st
    ELSE LET connector == connectors[name]
         IN IF /\ In(pin, connector.pins)
               /\ In(pin, connector.pinlabels)
               /\ Index(connector.pins, pin) # Index(connector.pinlabels, pin)
            THEN [st EXCEPT !.exc = "is defined both in pinlabels and pins, for different pins"]
            ELSE IF In(pin, connector.pinlabels)
            THEN IF Count(connector.pinlabels, pin) > 1
                 THEN [st EXCEPT !.exc = "is defined more than once"]
                 ELSE LET index == Index(connector.pinlabels, pin)
                      IN IF index > Len(connector.pins)
                         THEN [st EXCEPT !.exc = "IndexError"]
                         ELSE [st EXCEPT
                                 !.from_pin = IF name = from_name
                                              THEN connector.pins[index] ELSE @,
                                 !.to_pin = IF name = to_name
                                            THEN connector.pins[index] ELSE @]
            ELSE IF ~In(pin, connector.pins)
            THEN [st EXCEPT !.exc = "not found"]
            ELSE st

\* lines 201-227: [exc, via_wire], via_wire being the local after the block
CheckVia(via_name, via_wire) ==
    IF via_name \notin DOMAIN cables
    THEN [exc |-> None, via_wire |-> via_wire]
    ELSE LET cable == cables[via_name]
         IN IF /\ In(via_wire, cable.colors)
               /\ In(via_wire, cable.wirelabels)
               /\ Index(cable.colors, via_wire) # Index(cable.wirelabels, via_wire)
            THEN [exc |-> "is defined both in colors and wirelabels, for different wires",
                  via_wire |-> via_wire]
            ELSE IF In(via_wire, cable.colors)
            THEN IF Count(cable.colors, via_wire) > 1
                 THEN [exc |-> "is used for more than one wire", via_wire |-> via_wire]
                 ELSE [exc |-> None, via_wire |-> ToString(Index(cable.colors, via_wire))]
            ELSE IF In(via_wire, cable.wirelabels)
            THEN IF Count(cable.wirelabels, via_wire) > 1
                 THEN [exc |-> "is used for more than one wire", via_wire |-> via_wire]
                 ELSE [exc |-> None,
                       via_wire |-> ToString(Index(cable.wirelabels, via_wire))]
            ELSE [exc |-> None, via_wire |-> via_wire]

\* lines 230-239, one endpoint: [exc, pin]
EndpointPin(name, pin) ==
    IF name = None THEN [exc |-> None, pin |-> NoneObj]
    ELSE IF name \notin DOMAIN connectors THEN [exc |-> "KeyError", pin |-> NoneObj]
    ELSE get_pin_by_id(connectors[name], pin)

\* lines 242-245: the connectors after the two activations
Activate(cs, from_name, from_pin, to_name, to_pin) ==
    LET cs1 == IF from_name \in DOMAIN cs
               THEN [cs EXCEPT ![from_name] = activate_pin(@, from_pin, "RIGHT")]
               ELSE cs
    IN IF to_name \in DOMAIN cs1
       THEN [cs1 EXCEPT ![to_name] = activate_pin(@, to_pin, "LEFT")]
       ELSE cs1

\* Harness.connect: [exc, connectors, cables], the harness when the call ended
Connect(from_name, from_pin, via_name, via_wire, to_name, to_pin) ==
    LET st0 == [exc |-> None, from_pin |-> from_pin, to_pin |-> to_pin]
        st1 == CheckEndpoint(from_name, from_pin, from_name, to_name, st0)
        st == CheckEndpoint(to_name, to_pin, from_name, to_name, st1)
        via == CheckVia(via_name, via_wire)
        from_pin_obj == EndpointPin(from_name, st.from_pin)
        to_pin_obj == EndpointPin(to_name, st.to_pin)
        same == [connectors |-> connectors, cables |-> cables]
    IN IF st.exc # None THEN [exc |-> st.exc] @@ same
       ELSE IF via.exc # None THEN [exc |-> via.exc] @@ same
       ELSE IF from_pin_obj.exc # None THEN [exc |-> from_pin_obj.exc] @@ same
       ELSE IF to_pin_obj.exc # None THEN [exc |-> to_pin_obj.exc] @@ same
       ELSE IF via_name \notin DOMAIN cables THEN [exc |-> "KeyError"] @@ same
       ELSE LET r == CableConnect(cables[via_name], from_pin_obj.pin, via.via_wire,
                                  to_pin_obj.pin)
                cables1 == [cables EXCEPT ![via_name] = r.self]
            IN IF r.exc # None
               THEN [exc |-> r.exc, connectors |-> connectors, cables |-> cables1]
               ELSE [exc |-> None,
                     connectors |-> Activate(connectors, from_name, st.from_pin,
                                             to_name, st.to_pin),
                     cables |-> cables1]

-----------------------------------------------------------------------------
(* Harness.add_mate_pin *)

\* wv_gv_html.parse_arrow_str: [exc, direction]
parse_arrow_str(arrow_str) ==
    IF arrow_str = "--" THEN [exc |-> None, direction |-> "NONE"]
    ELSE IF arrow_str = "<--" THEN [exc |-> None, direction |-> "BACK"]
    ELSE IF arrow_str = "-->" THEN [exc |-> None, direction |-> "FORWARD"]
    ELSE IF arrow_str = "<-->" THEN [exc |-> None, direction |-> "BOTH"]
    ELSE [exc |-> "MalformedArrowToken", direction |-> None]

\* Harness.add_mate_pin: [exc, connectors, mates]
AddMatePin(from_name, from_pin, to_name, to_pin, arrow_str) ==
    LET from_pin_obj == EndpointPin(from_name, from_pin)
        to_pin_obj == EndpointPin(to_name, to_pin)
        arrow == parse_arrow_str(arrow_str)
        same == [connectors |-> connectors, mates |-> mates]
    IN IF from_name \notin DOMAIN connectors THEN [exc |-> "KeyError"] @@ same
       ELSE IF from_pin_obj.exc # None THEN [exc |-> from_pin_obj.exc] @@ same
       ELSE IF to_name \notin DOMAIN connectors THEN [exc |-> "KeyError"] @@ same
       ELSE IF to_pin_obj.exc # None THEN [exc |-> to_pin_obj.exc] @@ same
       ELSE IF arrow.exc # None THEN [exc |-> arrow.exc] @@ same
       ELSE [exc |-> None,
             connectors |-> Activate(connectors, from_name, from_pin, to_name, to_pin),
             mates |-> Append(mates, [from_ |-> from_pin_obj.pin, to |-> to_pin_obj.pin,
                                      arrow |-> [direction |-> arrow.direction,
                                                 weight |-> "SINGLE"]])]

-----------------------------------------------------------------------------
(* Harness._add_to_internal_bom *)

\* a variant of _add that assigns the quantity instead of adding it
AddAssign(b, call) ==
    LET bom_entry == IF call.hash \in DOMAIN b
                     THEN b[call.hash]
                     ELSE [qty |-> 0, designators |-> {}, category |-> None]
        designator_list == IF IsNoneObj(call.designator) THEN <<>>
                           ELSE IF IsList(call.designator) THEN call.designator.list
                           ELSE <<call.designator.str>>
        kept == {des \in SetOf(designator_list) :
                   des # None /\ des # "" /\ ~StartsWith(des, AUTOGENERATED_PREFIX)}
        entry == [qty |-> call.qty,
                  designators |-> bom_entry.designators \cup kept,
                  category |-> call.category]
    IN [h \in DOMAIN b \cup {call.hash} |-> IF h = call.hash THEN entry ELSE b[h]]

\* _add (lines 89-108): the BOM after one call.  call = [hash, designator, qty,
\* category]; self._bom is a defaultdict, so a missing entry starts empty.
Add(b, call) ==
    LET bom_entry == IF call.hash \in DOMAIN b
                     THEN b[call.hash]
                     ELSE [qty |-> 0, designators |-> {}, category |-> None]
        designator_list == IF IsNoneObj(call.designator) THEN <<>>
                           ELSE IF IsList(call.designator) THEN call.designator.list
                           ELSE <<call.designator.str>>
        kept == {des \in SetOf(designator_list) :
                   des # None /\ des # "" /\ ~StartsWith(des, AUTOGENERATED_PREFIX)}
        entry == [qty |-> bom_entry.qty + call.qty,
                  designators |-> bom_entry.designators \cup kept,
                  category |-> call.category]
    IN [h \in DOMAIN b \cup {call.hash} |-> IF h = call.hash THEN entry ELSE b[h]]

\* the _add calls of the additional components of a connector or cable
\* (lines 112-120 and 140-148)
AdditionalCalls(item, category) ==
    LET comps == SelectSeq(item.additional_components, LAMBDA comp : ~comp.ignore_in_bom)
    IN [i \in 1..Len(comps) |->
          [hash |-> bom_hash(comps[i]), designator |-> Str(item.designator),
           qty |-> qty_final(comps[i]), category |-> category]]

\* the _add calls _add_to_internal_bom makes for item, in order (lines 86-155)
AddCalls(item) ==
    IF item.ignore_in_bom THEN <<>>
    ELSE IF item.kind = "Connector"
    THEN <<[hash |-> bom_hash(item), designator |-> Str(item.designator),
            qty |-> 1 * QtyScale, category |-> "connector"]>>
         \o AdditionalCalls(item, "connector/additional")
    ELSE IF item.kind = "Cable"
    THEN IF item.category = "bundle"
         THEN [i \in 1..Len(item.wire_objects) |->
                 [hash |-> NoneObj, designator |-> Str(item.designator),
                  qty |-> item.length * QtyScale + 1, category |-> "wire DUMMY"]]
              \o AdditionalCalls(item, "wire/additional")
         ELSE <<[hash |-> bom_hash(item), designator |-> Str(item.designator),
                 qty |-> item.length * QtyScale, category |-> "cable"]>>
              \o AdditionalCalls(item, "cable/additional")
    ELSE <<[hash |-> bom_hash(item), designator |-> item.designators,
            qty |-> qty_final(item), category |-> "additional"]>>

\* the BOM after the calls, applied in order
RECURSIVE AddAll(_, _)
AddAll(b, calls) ==
    IF calls = <<>> THEN b ELSE AddAll(Add(b, Head(calls)), Tail(calls))

-----------------------------------------------------------------------------
(* Bounds and inputs *)

MaxConnections == 2   \* connect and add_mate_pin calls that succeed, in all
MaxItems == 2         \* length of additional_bom_items
MaxAdded == 4         \* _add invocations, in all

\* a connector with labelled pins and an additional component
KwLabelled ==
    [ConnectorDefaults EXCEPT
       !.type = "D-Sub", !.pins = <<"1", "2">>, !.pinlabels = <<"A", "B">>,
       !.additional_components =
          <<[AdditionalComponentDefaults EXCEPT
               !.type = "Crimp", !.qty_multiplier = "populated"]>>]
\* a connector whose label A is used twice
KwDuplicate ==
    [ConnectorDefaults EXCEPT
       !.type = "Molex", !.pincount = 2, !.pinlabels = <<"A", "A">>]
\* a connector whose first pin is labelled with the id of its second pin
KwAmbiguous ==
    [ConnectorDefaults EXCEPT
       !.type = "Molex", !.pins = <<"1", "2">>, !.pinlabels = <<"2">>]
\* a connector declared with neither pincount nor pin lists
KwEmpty == [ConnectorDefaults EXCEPT !.type = "D-Sub"]

\* a shielded two-wire cable
KwCable ==
    [CableDefaults EXCEPT
       !.type = "LiYCY", !.wirecount = 2, !.colors = <<"RD", "BK">>,
       !.wirelabels = <<"SIG", "GND">>, !.shield = TRUE, !.length = 1,
       !.pn = Str("C1")]
\* a bundle with one part number per wire
KwBundle ==
    [CableDefaults EXCEPT
       !.category = "bundle", !.colors = <<"RD", "BK">>, !.length = 2,
       !.pn = List(<<"P1", "P2">>), !.manufacturer = Str("ACME")]
\* a bundle whose part-number list is shorter than its wire count
KwBundleShort ==
    [CableDefaults EXCEPT
       !.category = "bundle", !.colors = <<"RD", "BK">>, !.length = 2,
       !.pn = List(<<"P1">>)]

\* the declarations and calls of the build phase
ConnectorDecls ==
    {<<"X1", KwLabelled>>, <<"X2", KwDuplicate>>, <<"X2", KwAmbiguous>>,
     <<"X2", KwEmpty>>}
CableDecls == {<<"W1", KwCable>>}
FromNames == {None, "X1"}
ToNames == {None, "X1", "X2"}
PinArgs == {"2", "A"}
WireArgs == {"RD", "3"}
ArrowArgs == {"-->", "-x-"}
ConnectorMultipliers == {"pincount", "populated"}
CableMultipliers == {"wirecount", "terminations"}

\* the declarations of the BOM phase
BomConnectorDecls == {<<"X1", KwLabelled>>, <<"X2", KwLabelled>>}
BomCableDecls ==
    {<<"W1", KwCable>>, <<"W2", KwCable>>, <<"W2", KwBundle>>, <<"W2", KwBundleShort>>}
ItemKws ==
    {[AdditionalComponentDefaults EXCEPT !.type = "Label", !.designators = Str("L1")],
     [AdditionalComponentDefaults EXCEPT
        !.type = "Label", !.designators = List(<<"L2", "AUTOGENERATED_L3", "">>)],
     [AdditionalComponentDefaults EXCEPT !.type = "Tape", !.ignore_in_bom = TRUE]}

ItemRefs ==
    ({"connectors"} \X {"X1", "X2"}) \cup ({"cables"} \X {"W1", "W2"})
    \cup ({"additional_bom_items"} \X (1..MaxItems))

-----------------------------------------------------------------------------
(* The harness *)

EmptyMap == [d \in {} |-> NoneObj]

\* Harness.__post_init__
Init ==
    /\ connectors = EmptyMap
    /\ cables = EmptyMap
    /\ mates = <<>>
    /\ additional_bom_items = <<>>
    /\ bom = EmptyMap
    /\ last = [op |-> "__post_init__", args |-> <<>>, exc |-> None, ret |-> None]
    /\ added = <<>>

\* connections and mates recorded so far
RECURSIVE Connections(_)
Connections(S) ==
    IF S = {} THEN 0
    ELSE LET d == CHOOSE d \in S : TRUE
         IN Len(cables[d]._connections) + Connections(S \ {d})

Recorded == Connections(DOMAIN cables) + Len(mates)

\* the components are declared before the build calls and the BOM calls are made
Declaring == Recorded = 0 /\ added = <<>>

\* Harness.add_connector
add_connector(designator, kw) ==
    LET conn == Connector(designator, kw)
    IN /\ Declaring
       /\ connectors' = IF conn.exc = None
                        THEN [d \in DOMAIN connectors \cup {designator} |->
                                IF d = designator THEN conn.obj ELSE connectors[d]]
                        ELSE connectors
       /\ last' = [op |-> "add_connector", args |-> <<designator, kw>>,
                   exc |-> conn.exc, ret |-> None]
       /\ UNCHANGED <<cables, mates, additional_bom_items, bom, added>>

\* Harness.add_cable
add_cable(designator, kw) ==
    LET cbl == Cable(designator, kw)
    IN /\ Declaring
       /\ cables' = IF cbl.exc = None
                    THEN [d \in DOMAIN cables \cup {designator} |->
                            IF d = designator THEN cbl.obj ELSE cables[d]]
                    ELSE cables
       /\ last' = [op |-> "add_cable", args |-> <<designator, kw>>,
                   exc |-> cbl.exc, ret |-> None]
       /\ UNCHANGED <<connectors, mates, additional_bom_items, bom, added>>

\* Harness.connect
connect(from_name, from_pin, via_name, via_wire, to_name, to_pin) ==
    LET r == Connect(from_name, from_pin, via_name, via_wire, to_name, to_pin)
    IN /\ Recorded < MaxConnections
       /\ connectors' = r.connectors
       /\ cables' = r.cables
       /\ last' = [op |-> "connect",
                   args |-> <<from_name, from_pin, via_name, via_wire, to_name, to_pin>>,
                   exc |-> r.exc, ret |-> None]
       /\ UNCHANGED <<mates, additional_bom_items, bom, added>>

\* Harness.add_mate_pin
add_mate_pin(from_name, from_pin, to_name, to_pin, arrow_str) ==
    LET r == AddMatePin(from_name, from_pin, to_name, to_pin, arrow_str)
    IN /\ Recorded < MaxConnections
       /\ connectors' = r.connectors
       /\ mates' = r.mates
       /\ last' = [op |-> "add_mate_pin",
                   args |-> <<from_name, from_pin, to_name, to_pin, arrow_str>>,
                   exc |-> r.exc, ret |-> None]
       /\ UNCHANGED <<cables, additional_bom_items, bom, added>>

\* Connector.get_qty_multiplier on a connector of the harness
connector_get_qty_multiplier(designator, qty_multiplier) ==
    /\ designator \in DOMAIN connectors
    /\ LET r == ConnectorQtyMultiplier(connectors[designator], qty_multiplier)
       IN last' = [op |-> "Connector.get_qty_multiplier",
                   args |-> <<designator, qty_multiplier>>,
                   exc |-> r.exc, ret |-> r.ret]
    /\ UNCHANGED <<connectors, cables, mates, additional_bom_items, bom, added>>

\* Cable.get_qty_multiplier on a cable of the harness
cable_get_qty_multiplier(designator, qty_multiplier) ==
    /\ designator \in DOMAIN cables
    /\ LET r == CableQtyMultiplier(cables[designator], qty_multiplier)
       IN last' = [op |-> "Cable.get_qty_multiplier",
                   args |-> <<designator, qty_multiplier>>,
                   exc |-> r.exc, ret |-> r.ret]
    /\ UNCHANGED <<connectors, cables, mates, additional_bom_items, bom, added>>

\* Harness.add_additional_bom_item
add_additional_bom_item(item) ==
    /\ Declaring
    /\ Len(additional_bom_items) < MaxItems
    /\ additional_bom_items' = Append(additional_bom_items, AdditionalComponent(item))
    /\ last' = [op |-> "add_additional_bom_item", args |-> <<item>>,
                exc |-> None, ret |-> None]
    /\ UNCHANGED <<connectors, cables, mates, bom, added>>

\* the components _add_to_internal_bom can be given
Items ==
    {connectors[d] : d \in DOMAIN connectors} \cup {cables[d] : d \in DOMAIN cables}
    \cup SetOf(additional_bom_items)

\* a component of the harness: ref = <<collection, key>>
Has(ref) ==
    IF ref[1] = "connectors" THEN ref[2] \in DOMAIN connectors
    ELSE IF ref[1] = "cables" THEN ref[2] \in DOMAIN cables
    ELSE ref[2] <= Len(additional_bom_items)

ItemAt(ref) ==
    IF ref[1] = "connectors" THEN connectors[ref[2]]
    ELSE IF ref[1] = "cables" THEN cables[ref[2]]
    ELSE additional_bom_items[ref[2]]

\* Harness._add_to_internal_bom on a component of the harness; ret holds the
\* _add calls it made
add_to_internal_bom(ref) ==
    /\ Has(ref)
    /\ LET item == ItemAt(ref)
       IN /\ Len(added) + Len(AddCalls(item)) <= MaxAdded
          /\ bom' = AddAll(bom, AddCalls(item))
          /\ added' = added \o AddCalls(item)
          /\ last' = [op |-> "_add_to_internal_bom", args |-> <<item>>,
                      exc |-> None, ret |-> AddCalls(item)]
    /\ UNCHANGED <<connectors, cables, mates, additional_bom_items>>

Next ==
    \/ \E decl \in ConnectorDecls : add_connector(decl[1], decl[2])
    \/ \E decl \in CableDecls : add_cable(decl[1], decl[2])
    \/ \E from_name \in FromNames, from_pin \in PinArgs, via_name \in {"W1"},
          via_wire \in WireArgs, to_name \in ToNames, to_pin \in PinArgs :
          connect(from_name, from_pin, via_name, via_wire, to_name, to_pin)
    \/ \E from_name \in FromNames, from_pin \in PinArgs, to_name \in ToNames,
          to_pin \in PinArgs, arrow_str \in ArrowArgs :
          add_mate_pin(from_name, from_pin, to_name, to_pin, arrow_str)
    \/ \E d \in {"X1", "X2"}, m \in ConnectorMultipliers :
          connector_get_qty_multiplier(d, m)
    \/ \E d \in {"W1"}, m \in CableMultipliers : cable_get_qty_multiplier(d, m)

Spec == Init /\ [][Next]_vars

NextBom ==
    \/ \E decl \in BomConnectorDecls : add_connector(decl[1], decl[2])
    \/ \E decl \in BomCableDecls : add_cable(decl[1], decl[2])
    \/ \E item \in ItemKws : add_additional_bom_item(item)
    \/ \E ref \in ItemRefs : add_to_internal_bom(ref)

SpecBom == Init /\ [][NextBom]_vars

-----------------------------------------------------------------------------
(* Declarations whose counts, ids, labels or designators disagree, and the  *)
(* calls that resolve references on them                                    *)

\* an additional component declared with a type only
KwPlainComponent == [AdditionalComponentDefaults EXCEPT !.type = "Crimp"]

\* a connector declared with pincount 2 and three pins
KwMiscounted ==
    [ConnectorDefaults EXCEPT
       !.pincount = 2, !.pins = <<"1", "2", "3">>,
       !.additional_components = <<KwPlainComponent>>]
\* a simple connector declared with two pins
KwSimplePins == [ConnectorDefaults EXCEPT !.style = "simple", !.pins = <<"1", "2">>]
\* a simple connector declared with pincount 2
KwSimpleCount == [ConnectorDefaults EXCEPT !.style = "simple", !.pincount = 2]
\* a connector with one pin and three labels
KwOverlabelled ==
    [ConnectorDefaults EXCEPT !.pins = <<"1">>, !.pinlabels = <<"A", "B", "C">>]

\* a cable whose first wire is labelled with the id of its second wire
KwNumbered ==
    [CableDefaults EXCEPT
       !.wirecount = 2, !.wirelabels = <<"2", "1">>,
       !.additional_components = <<KwPlainComponent>>]
\* a cable whose wires are labelled with each other's colour
KwCrossed ==
    [CableDefaults EXCEPT !.colors = <<"RD", "BK">>, !.wirelabels = <<"BK", "RD">>]
\* a cable declared with wirecount 1 and two wire labels
KwShortCount == [CableDefaults EXCEPT !.wirecount = 1, !.wirelabels = <<"A", "B">>]

DeclConnectorDecls ==
    {<<"X1", KwMiscounted>>, <<"X1", KwSimplePins>>, <<"X1", KwSimpleCount>>,
     <<"x1", KwOverlabelled>>, <<"x1", KwAmbiguous>>}
DeclCableDecls == {<<"W1", KwNumbered>>, <<"W1", KwCrossed>>, <<"W1", KwShortCount>>}
DeclToNames == {None, "X1", "x1"}
DeclPinArgs == {"1", "2"}
DeclWireArgs == {"2", "RD"}
\* the multiplier of a component declared without one, and no multiplier
DeclMultipliers == {AdditionalComponentDefaults.qty_multiplier, None}

NextDecl ==
    \/ \E decl \in DeclConnectorDecls : add_connector(decl[1], decl[2])
    \/ \E decl \in DeclCableDecls : add_cable(decl[1], decl[2])
    \/ \E via_wire \in DeclWireArgs, to_name \in DeclToNames, to_pin \in DeclPinArgs :
          connect(None, None, "W1", via_wire, to_name, to_pin)
    \/ \E d \in {"X1", "x1"}, m \in DeclMultipliers : connector_get_qty_multiplier(d, m)
    \/ \E d \in {"W1"}, m \in DeclMultipliers : cable_get_qty_multiplier(d, m)

SpecDecl == Init /\ [][NextDecl]_vars

-----------------------------------------------------------------------------
(* Properties *)

BuildOps == {"connect", "add_mate_pin"}
Succeeded(call) == call.exc = None
IsPrefix(s, t) == Len(s) <= Len(t) /\ SubSeq(t, 1, Len(s)) = s

\* C1: every successful connect appends exactly one Connection to the named
\* cable and leaves the earlier entries, and every other cable, as they were;
\* no other call changes a cable's _connections.
C1_ConnectAppendsOne ==
    [][\A d \in DOMAIN cables :
         /\ d \in DOMAIN cables'
         /\ IF last'.op = "connect" /\ Succeeded(last') /\ last'.args[3] = d
            THEN /\ Len(cables'[d]._connections) = Len(cables[d]._connections) + 1
                 /\ IsPrefix(cables[d]._connections, cables'[d]._connections)
            ELSE cables'[d]._connections = cables[d]._connections]_vars

\* C1 witness: two connect calls with the same arguments left two equal records
C1_Witness ==
    /\ last.op = "connect" /\ Succeeded(last)
    /\ LET c == cables[last.args[3]]._connections
       IN Len(c) = 2 /\ c[1] = c[2]

\* the pin objects of a connector that a reference names: the pin with that id
\* or, when no pin has that id, the pin with that label if the connector uses
\* the label once
PinsNamed(connector, ref) ==
    LET pins == {connector.pin_objects[i] : i \in 1..Len(connector.pin_objects)}
        by_id == {p \in pins : p.id = ref}
    IN IF by_id # {} THEN by_id
       ELSE {p \in pins : p.label = ref /\ Count(connector.pinlabels, ref) = 1}

\* C2: the Connection a successful connect records holds, on each side, the pin
\* its own reference names, also when both sides are on the same connector.
C2_EndpointsResolvedIndependently ==
    (last.op = "connect" /\ Succeeded(last)) =>
        LET from_name == last.args[1]
            from_pin == last.args[2]
            to_name == last.args[5]
            to_pin == last.args[6]
            c == cables[last.args[3]]._connections
            connection == c[Len(c)]
        IN /\ from_name # None =>
                connection.from_ \in PinsNamed(connectors[from_name], from_pin)
           /\ to_name # None =>
                connection.to \in PinsNamed(connectors[to_name], to_pin)

\* C3: a connect or add_mate_pin call that raises leaves the connectors
\* (visible_pins, ports_left, ports_right), the cables' connections and the
\* mates as they were.
C3_FailedCallChangesNothing ==
    [][(last'.op \in BuildOps /\ ~Succeeded(last')) =>
         (connectors' = connectors /\ cables' = cables /\ mates' = mates)]_vars

\* C3 witness: a connect with both pins resolved whose wire is not found, made
\* on a harness that already holds a connection
C3_Witness ==
    /\ last.op = "connect" /\ last.exc = "Wire ID not found"
    /\ last.args[1] # None /\ last.args[5] # None
    /\ Recorded > 0

\* the ids of the pins a connector's activation map marks active
Active(connector) == {p \in DOMAIN connector.visible_pins : connector.visible_pins[p]}

\* the ids of the pins of connector d that a build call's arguments name as its
\* from or to endpoint (both calls pass from_name, from_pin first; connect's
\* to pair is at 5 and 6, add_mate_pin's at 3 and 4)
EndpointIds(d, call) ==
    LET to == IF call.op = "connect" THEN 5 ELSE 3
        named(name, pin) == IF name = d
                            THEN {p.id : p \in PinsNamed(connectors[d], pin)}
                            ELSE {}
    IN named(call.args[1], call.args[2]) \cup named(call.args[to], call.args[to + 1])

\* C4: a pin is active exactly when a successful connect or add_mate_pin named
\* it as an endpoint (each successful call adds its endpoints' pins to the
\* active pins and nothing else does), and "populated" returns their number.
C4_ActiveExactlyEndpoints ==
    [][/\ \A d \in DOMAIN connectors \cap DOMAIN connectors' :
            IF last'.op \in BuildOps /\ Succeeded(last')
            THEN Active(connectors'[d]) = Active(connectors[d]) \cup EndpointIds(d, last')
            ELSE IF last'.op = "add_connector" /\ Succeeded(last') /\ last'.args[1] = d
            THEN Active(connectors'[d]) = {}
            ELSE Active(connectors'[d]) = Active(connectors[d])
       /\ (last'.op = "Connector.get_qty_multiplier" /\ last'.args[2] = "populated") =>
            /\ Succeeded(last')
            /\ last'.ret = Cardinality(Active(connectors'[last'.args[1]]))]_vars

\* C5: get_qty_multiplier("terminations") returns the number of Connection
\* records in the cable's _connections.
C5_TerminationsCountsConnections ==
    (last.op = "Cable.get_qty_multiplier" /\ last.args[2] = "terminations") =>
        /\ Succeeded(last)
        /\ last.ret = Len(cables[last.args[1]]._connections)

\* C6: a "populated" or "terminations" query that returned a value is not
\* followed by a successful connect or add_mate_pin.
C6_NoBuildAfterEvaluation ==
    [][(/\ last.op \in {"Connector.get_qty_multiplier", "Cable.get_qty_multiplier"}
        /\ last.args[2] \in {"populated", "terminations"}
        /\ Succeeded(last))
       => ~(last'.op \in BuildOps /\ Succeeded(last'))]_vars


\* the designators an _add call passes
DesignatorsOf(call) ==
    IF IsNoneObj(call.designator) THEN {}
    ELSE IF IsList(call.designator) THEN SetOf(call.designator.list)
    ELSE {call.designator.str}

\* the _add calls made so far with hash h
CallsWith(h) == {i \in 1..Len(added) : added[i].hash = h}

RECURSIVE QtySum(_)
QtySum(I) ==
    IF I = {} THEN 0
    ELSE LET i == CHOOSE i \in I : TRUE IN added[i].qty + QtySum(I \ {i})

\* C7: the BOM holds one entry per hash contributed and no other; the entry's
\* quantity is the sum of the quantities contributed under the hash and its
\* designators are those contributed under it that are non-empty and not
\* autogenerated.
C7_BomMergesByHash ==
    /\ DOMAIN bom = {added[i].hash : i \in 1..Len(added)}
    /\ \A h \in DOMAIN bom :
         /\ bom[h].qty = QtySum(CallsWith(h))
         /\ bom[h].designators =
              {des \in UNION {DesignatorsOf(added[i]) : i \in CallsWith(h)} :
                 des # None /\ des # "" /\ ~StartsWith(des, AUTOGENERATED_PREFIX)}

\* C7 witness: two additional components with equal hash and different
\* designators share one entry that holds both designators, the quantities of
\* both, and neither the autogenerated nor the empty designator
C7_Witness ==
    \E h \in DOMAIN bom :
        /\ bom[h].designators = {"L1", "L2"}
        /\ bom[h].qty = 2 * 999 * QtyScale
        /\ Cardinality(CallsWith(h)) = 2

\* C8: aggregating a bundle calls _add once per wire, the i-th call keyed by
\* the i-th element of the bundle's per-wire hash list.
C8_BundleWiresKeyedByOwnHash ==
    (/\ last.op = "_add_to_internal_bom"
     /\ last.args[1].kind = "Cable"
     /\ last.args[1].category = "bundle"
     /\ ~last.args[1].ignore_in_bom) =>
        LET item == last.args[1]
            hashes == bom_hash(item).list
            n == Len(item.wire_objects)
        IN /\ Len(hashes) = n
           /\ Len(last.ret) >= n
           /\ \A i \in 1..n : last.ret[i].hash = hashes[i]
           /\ \A i \in 1..n : last.ret[i].hash \in DOMAIN bom

\* a part-number list of pairwise different values
PairwiseDifferent(l) == Cardinality(SetOf(l)) = Len(l)

\* C9: a bundle with wirecount n and a part-number field given as a list of n
\* pairwise different values has a bom_hash of n pairwise different BomHashes,
\* the i-th carrying the i-th wire's part number; a declaration whose list has
\* another length fails.
C9_BundleHashPerWire ==
    /\ \A d \in DOMAIN cables :
         LET cable == cables[d]
             pn == cable.partnumbers.pn
         IN (cable.category = "bundle" /\ IsList(pn) /\ PairwiseDifferent(pn.list)) =>
              LET hashes == bom_hash(cable).list
              IN /\ Len(hashes) = cable.wirecount
                 /\ PairwiseDifferent(hashes)
                 /\ \A i \in 1..Len(hashes) : hashes[i].partnumbers.pn = Str(pn.list[i])
    /\ (/\ last.op = "add_cable"
        /\ last.args[2].category = "bundle"
        /\ IsList(last.args[2].pn)
        /\ Len(last.args[2].pn.list) # CableWirecount(last.args[2])) => ~Succeeded(last)

\* the fields a component is declared with, its designator(s) left out (and
\* with them what the constructor derives from the designator, and the state
\* the build calls change)
Declared(c) ==
    [f \in DOMAIN c \ {"designator", "designators", "pin_objects", "wire_objects",
                       "show_name", "visible_pins", "ports_left", "ports_right",
                       "_connections"} |-> c[f]]

\* the designators under which a component is aggregated
OwnDesignators(c) ==
    IF c.kind = "AdditionalComponent"
    THEN DesignatorsOf([designator |-> c.designators])
    ELSE {c.designator}

\* C10: two connectors, two non-bundle cables or two additional components
\* declared alike except for the designator have equal bom_hash, and once both
\* are aggregated one BOM entry holds both.
C10_HashIgnoresDesignator ==
    \A c1, c2 \in Items :
        (/\ c1.kind = c2.kind
         /\ c1.category # "bundle"
         /\ ~c1.ignore_in_bom
         /\ Declared(c1) = Declared(c2)) =>
            LET h1 == bom_hash(c1)
                h2 == bom_hash(c2)
                des1 == OwnDesignators(c1)
                des2 == OwnDesignators(c2)
            IN /\ h1 = h2
               /\ (/\ \E i \in 1..Len(added) :
                        added[i].hash = h1 /\ DesignatorsOf(added[i]) = des1
                   /\ \E j \in 1..Len(added) :
                        added[j].hash = h2 /\ DesignatorsOf(added[j]) = des2) =>
                    /\ h1 \in DOMAIN bom
                    /\ \A des \in des1 \cup des2 :
                         (des # "" /\ ~StartsWith(des, AUTOGENERATED_PREFIX)) =>
                            des \in bom[h1].designators

\* C10 witness: two connectors declared alike under different designators,
\* both aggregated into one entry
C10_Witness ==
    /\ {"X1", "X2"} \subseteq DOMAIN connectors
    /\ Declared(connectors["X1"]) = Declared(connectors["X2"])
    /\ \E h \in DOMAIN bom :
         /\ h = bom_hash(connectors["X1"])
         /\ {"X1", "X2"} \subseteq bom[h].designators
         /\ bom[h].category = "connector"

\* what connect makes of one endpoint reference on its own (lines 178-199 and
\* 230-239 for a single name and pin): [exc, pin]
ConnectResolves(name, pin) ==
    LET st == CheckEndpoint(name, pin, name, None,
                            [exc |-> None, from_pin |-> pin, to_pin |-> pin])
        r == EndpointPin(name, st.from_pin)
    IN IF st.exc # None THEN [exc |-> st.exc, pin |-> NoneObj] ELSE r

\* C11: add_mate_pin on two registered connectors, with a well-formed arrow,
\* succeeds exactly when connect resolves both references; it then records a
\* MatePin holding the pins connect resolves them to and marks those pins
\* active, RIGHT on the from connector and LEFT on the to connector.
C11_MateResolvesAsConnect ==
    (/\ last.op = "add_mate_pin"
     /\ last.args[1] \in DOMAIN connectors
     /\ last.args[3] \in DOMAIN connectors
     /\ parse_arrow_str(last.args[5]).exc = None) =>
        LET from == ConnectResolves(last.args[1], last.args[2])
            to == ConnectResolves(last.args[3], last.args[4])
        IN /\ Succeeded(last) <=> (from.exc = None /\ to.exc = None)
           /\ Succeeded(last) =>
                /\ mates[Len(mates)].from_ = from.pin
                /\ mates[Len(mates)].to = to.pin
                /\ from.pin.id \in Active(connectors[last.args[1]])
                /\ to.pin.id \in Active(connectors[last.args[3]])
                /\ connectors[last.args[1]].ports_right
                /\ connectors[last.args[3]].ports_left

\* a pin reference that is in the connector's pins and in its pinlabels at
\* different indices
AmbiguousPin(connector, ref) ==
    \E i \in 1..Len(connector.pins), j \in 1..Len(connector.pinlabels) :
        i # j /\ connector.pins[i] = ref /\ connector.pinlabels[j] = ref

\* a wire reference that is the id of one wire and the label or colour of
\* another
AmbiguousWire(cable, ref) ==
    \E i, j \in 1..Len(cable.wire_objects) :
        /\ i # j
        /\ cable.wire_objects[i].id = ref
        /\ cable.wire_objects[j].label = ref \/ cable.wire_objects[j].color = ref

AmbiguousErrors ==
    {"is defined both in pinlabels and pins, for different pins",
     "is defined both in colors and wirelabels, for different wires"}

\* C12: a connect whose to pin reference is ambiguous on its connector, or
\* whose wire reference is ambiguous on its cable while the pin references
\* resolve, raises the ambiguous-reference error (the calls made here leave
\* the from side open, so the to reference is the first one checked).
C12_AmbiguousReferenceRaises ==
    (last.op = "connect" /\ last.args[1] = None) =>
        LET via_name == last.args[3]
            via_wire == last.args[4]
            to_name == last.args[5]
            to_pin == last.args[6]
        IN /\ (/\ to_name \in DOMAIN connectors
               /\ AmbiguousPin(connectors[to_name], to_pin)) =>
                 last.exc \in AmbiguousErrors
           /\ (/\ via_name \in DOMAIN cables
               /\ AmbiguousWire(cables[via_name], via_wire)
               /\ ConnectResolves(to_name, to_pin).exc = None) =>
                 last.exc \in AmbiguousErrors

\* a label the connector registered under name uses more than once and that is
\* not also one of its pin ids
DuplicateLabel(cs, name, pin) ==
    /\ name \in DOMAIN cs
    /\ Count(cs[name].pinlabels, pin) > 1
    /\ ~In(pin, cs[name].pins)

FromName(call) == call.args[1]
ToName(call) == IF call.op = "connect" THEN call.args[5] ELSE call.args[3]

\* C14: a connector's ports_right becomes true exactly by a successful connect
\* or add_mate_pin whose from component it is, and ports_left exactly by one
\* whose to component it is; a newly registered connector has both false; a
\* successful connect with a null from (to) component records a Connection
\* whose from (to) pin is empty.
C14_SidesFollowRoles ==
    [][/\ \A d \in DOMAIN connectors' :
            IF last'.op = "add_connector" /\ Succeeded(last') /\ last'.args[1] = d
            THEN ~connectors'[d].ports_right /\ ~connectors'[d].ports_left
            ELSE /\ d \in DOMAIN connectors
                 /\ IF last'.op \in BuildOps /\ Succeeded(last')
                    THEN /\ connectors'[d].ports_right =
                              (connectors[d].ports_right \/ FromName(last') = d)
                         /\ connectors'[d].ports_left =
                              (connectors[d].ports_left \/ ToName(last') = d)
                    ELSE /\ connectors'[d].ports_right = connectors[d].ports_right
                         /\ connectors'[d].ports_left = connectors[d].ports_left
       /\ (last'.op = "connect" /\ Succeeded(last')) =>
            LET c == cables'[last'.args[3]]._connections
            IN /\ FromName(last') = None => c[Len(c)].from_ = NoneObj
               /\ ToName(last') = None => c[Len(c)].to = NoneObj]_vars

\* C14 witness: a connect with a null from component and X1 as to component
\* has succeeded; X1 is open on the left only and the Connection's from pin is
\* empty
C14_Witness ==
    /\ last.op = "connect" /\ Succeeded(last)
    /\ FromName(last) = None /\ ToName(last) = "X1"
    /\ connectors["X1"].ports_left /\ ~connectors["X1"].ports_right
    /\ LET c == cables[last.args[3]]._connections
       IN c[Len(c)].from_ = NoneObj /\ c[Len(c)].to # NoneObj

\* the additional components of a registered connector or cable
Components(op, d) ==
    IF op = "Connector.get_qty_multiplier"
    THEN connectors[d].additional_components
    ELSE cables[d].additional_components

\* C15: when the qty_multiplier field of an additional component declared
\* without a multiplier is passed to its parent's get_qty_multiplier, the call
\* returns 1 and raises nothing.
C15_NoMultiplierIsIdentity ==
    (/\ last.op \in {"Connector.get_qty_multiplier", "Cable.get_qty_multiplier"}
     /\ \E i \in 1..Len(Components(last.op, last.args[1])) :
           /\ Components(last.op, last.args[1])[i] = AdditionalComponent(KwPlainComponent)
           /\ Components(last.op, last.args[1])[i].qty_multiplier = last.args[2]) =>
        /\ Succeeded(last)
        /\ last.ret = 1

\* the lengths of the lists among `lists` that the declaration gives
GivenLengths(lists) == {Len(lists[i]) : i \in {i \in 1..Len(lists) : lists[i] # <<>>}}

\* C16: add_connector with a declared pincount that differs from the length
\* of a declared pins, pinlabels or pincolors list, and add_cable with a
\* declared wirecount smaller than the number of wirelabels, raise and
\* register nothing.
C16_CountMismatchRejected ==
    /\ (last.op = "add_connector"
        /\ LET kw == last.args[2]
           IN /\ kw.pincount # 0
              /\ GivenLengths(<<kw.pins, kw.pinlabels, kw.pincolors>>) \ {kw.pincount} # {}) =>
          ~Succeeded(last)
    /\ (last.op = "add_cable"
        /\ LET kw == last.args[2]
           IN kw.wirecount # 0 /\ Len(kw.wirelabels) > kw.wirecount) =>
          ~Succeeded(last)

\* C17: every registered connector of style "simple" has exactly one pin
\* object, and add_connector with style "simple" and a pincount or a pins,
\* pinlabels or pincolors list of more than one entry raises.
C17_SimpleHasOnePin ==
    /\ \A d \in DOMAIN connectors :
          connectors[d].style = "simple" => Len(connectors[d].pin_objects) = 1
    /\ (last.op = "add_connector"
        /\ LET kw == last.args[2]
           IN /\ kw.style = "simple"
              /\ \/ kw.pincount > 1
                 \/ \E n \in GivenLengths(<<kw.pins, kw.pinlabels, kw.pincolors>>) : n > 1) =>
          ~Succeeded(last)

\* C18: in every registered connector the pin objects have pairwise different
\* ids, and get_pin_by_id of a pin object's id returns that pin object, whose
\* index is its position in the declaration.
C18_PinIdsUnique ==
    \A d \in DOMAIN connectors :
        LET pin_objects == connectors[d].pin_objects
        IN \A i \in 1..Len(pin_objects) :
              /\ \A j \in 1..Len(pin_objects) :
                    pin_objects[i].id = pin_objects[j].id => i = j
              /\ get_pin_by_id(connectors[d], pin_objects[i].id).exc = None
              /\ get_pin_by_id(connectors[d], pin_objects[i].id).pin = pin_objects[i]
              /\ pin_objects[i].index = i - 1

\* str.lower on the letters the designators use
LowerChar(c) == IF c = "X" THEN "x" ELSE IF c = "W" THEN "w" ELSE c

RECURSIVE Lower(_)
Lower(s) == IF s = "" THEN "" ELSE LowerChar(SubSeq(s, 1, 1)) \o Lower(SubSeq(s, 2, Len(s)))

\* C19: after every step no two registered connectors, and no two registered
\* cables, have designators that are equal when case is ignored, no connector
\* shares such a designator with a cable, and an add_connector or add_cable
\* naming a designator that is already registered leaves the registered
\* component as it was.
C19_DesignatorsUnique ==
    [][/\ \A d1, d2 \in DOMAIN connectors' : Lower(d1) = Lower(d2) => d1 = d2
       /\ \A d1, d2 \in DOMAIN cables' : Lower(d1) = Lower(d2) => d1 = d2
       /\ \A d1 \in DOMAIN connectors', d2 \in DOMAIN cables' : Lower(d1) # Lower(d2)
       /\ (last'.op = "add_connector" /\ last'.args[1] \in DOMAIN connectors) =>
            connectors'[last'.args[1]] = connectors[last'.args[1]]
       /\ (last'.op = "add_cable" /\ last'.args[1] \in DOMAIN cables) =>
            cables'[last'.args[1]] = cables[last'.args[1]]]_vars

\* the parent's multiplier for a component's qty_multiplier: [exc, ret]
ParentMultiplier(parent, comp) ==
    IF parent.kind = "Connector"
    THEN ConnectorQtyMultiplier(parent, comp.qty_multiplier)
    ELSE CableQtyMultiplier(parent, comp.qty_multiplier)

\* C20: when a connector or cable is aggregated, the quantity accumulated for
\* each of its additional components that are not ignored is the component's
\* qty times the parent's multiplier for the component's qty_multiplier (the
\* component's own _add call is the first, those of its additional components
\* follow in order).
C20_QuantityFromMultiplier ==
    (/\ last.op = "_add_to_internal_bom"
     /\ last.args[1].kind \in {"Connector", "Cable"}
     /\ last.args[1].category # "bundle"
     /\ ~last.args[1].ignore_in_bom) =>
        LET parent == last.args[1]
            comps == SelectSeq(parent.additional_components,
                               LAMBDA comp : ~comp.ignore_in_bom)
        IN \A i \in 1..Len(comps) :
              /\ ParentMultiplier(parent, comps[i]).exc = None
              /\ last.ret[1 + i].qty =
                   comps[i].qty * ParentMultiplier(parent, comps[i]).ret * QtyScale

\* C21: for every registered connector the "populated" multiplier, the number
\* of pins its visible_pins marks active, is at most its "pincount" multiplier.
C21_PopulatedAtMostPincount ==
    \A d \in DOMAIN connectors :
        ConnectorQtyMultiplier(connectors[d], "populated").ret
            <= ConnectorQtyMultiplier(connectors[d], "pincount").ret

====
